---- MODULE Spec2Model ----
(***************************************************************************)
(* Render-job orchestration of the integral solver web app (src/app.py):   *)
(* the dispatcher (index), the job registry (TASKS), the render worker     *)
(* (generate_integral_video), the output-store normaliser                  *)
(* (_flatten_to_video_dir) and the status view.                            *)
(*                                                                         *)
(* A path is a sequence of names relative to VIDEO_DIR; a name is a pair   *)
(* <<stem, suffix>>.  The file system is fs (file path -> content) plus     *)
(* dirs (the directories that exist below VIDEO_DIR).                      *)
(***************************************************************************)
EXTENDS Integers, Sequences, FiniteSets, TLC

VARIABLES TASKS, fs, dirs, workers, issued, response, harness, gui

vars == <<TASKS, fs, dirs, workers, issued, response, harness, gui>>

----------------------------------------------------------------------------
(* Bounds of the model *)

\* number of accepted submissions in one run
MaxJobs == 2
\* number of distinct fragment file names the rendering engine may use
NumFragNames == 1

----------------------------------------------------------------------------
(* Names and paths *)

VIDEO_DIR == <<>>

Mp4Name(stem) == <<stem, ".mp4">>
DirName(stem) == <<stem, "">>

IsMp4(name) == name[2] = ".mp4"

Parent(p) == SubSeq(p, 1, Len(p) - 1)
BaseName(p) == p[Len(p)]

IsUnder(d, p) == /\ Len(d) < Len(p)
                 /\ SubSeq(p, 1, Len(d)) = d

\* uuid4().hex of the n-th accepted submission: fresh, never reused
Uuid(n) == "uuid" \o ToString(n)

Vid(n) == Mp4Name(Uuid(n))

\* variant of VideoPath: every job is given the same output path
VideoPathShared(vid) == VIDEO_DIR \o <<Mp4Name("output")>>

VideoPath(vid) == VIDEO_DIR \o <<vid>>

PARTIAL_ROOT == VIDEO_DIR \o <<DirName("partial_movie_files")>>

\* where the rendering engine works: its fragment directory, its fragment
\* names, its fragment list, and the places it may put the finished movie
SceneName == "IntegralScene"
FragDir == PARTIAL_ROOT \o <<DirName(SceneName)>>
FragNames == {Mp4Name("frag" \o ToString(k)) : k \in 1..NumFragNames}
FragList == FragDir \o <<(<<"partial_movie_file_list", ".txt">>)>>
QualityDir == VIDEO_DIR \o <<DirName("1080p60")>>
EngineMoviePaths == {VIDEO_DIR \o <<Mp4Name(SceneName)>>,
                     QualityDir \o <<Mp4Name(SceneName)>>}

----------------------------------------------------------------------------
(* File system primitives *)

NoFiles == [q \in {} |-> 0]

Exists(f, p) == p \in DOMAIN f

Unlink(f, p) == [q \in (DOMAIN f) \ {p} |-> f[q]]

WriteFile(f, p, c) == [q \in (DOMAIN f) \cup {p} |-> IF q = p THEN c ELSE f[q]]

\* shutil.move(src, dst) of an existing file: rename, replacing dst
ShutilMove(f, src, dst) == WriteFile(Unlink(f, src), dst, f[src])

\* Path.exists() of a directory: VIDEO_DIR itself is made when the module is
\* loaded and is never removed
DirExists(ds, d) == d = VIDEO_DIR \/ d \in ds

\* every ancestor directory of p (below VIDEO_DIR)
Ancestors(p) == {SubSeq(p, 1, k) : k \in 1..(Len(p) - 1)}

----------------------------------------------------------------------------
(* String handling of the form fields: a string is a sequence of characters *)

IsSpace(c) == c = " "

RECURSIVE LStrip(_)
LStrip(s) == IF s # <<>> /\ IsSpace(Head(s)) THEN LStrip(Tail(s)) ELSE s

RECURSIVE RStrip(_)
RStrip(s) == IF s # <<>> /\ IsSpace(s[Len(s)])
             THEN RStrip(SubSeq(s, 1, Len(s) - 1))
             ELSE s

\* variant of Strip: the field is taken as typed
NoStrip(s) == s

Strip(s) == RStrip(LStrip(s))

FieldNames == {"integrand", "variable", "lower", "upper"}

\* what a client may type into one field
FieldValues == {<<>>, <<" ">>, <<" ", "x", " ">>}

----------------------------------------------------------------------------
(* The job registry: vid -> "pending" | "ready" | "error:<msg>".  A state   *)
(* string is kept as its tokens, so that startswith("error:") is computed. *)

Pending == <<"pending">>
Ready == <<"ready">>
ErrorState(exc) == <<"error:", exc>>

StartsWithError(state) == state[1] = "error:"

\* TASKS[vid] = state
SetTask(T, vid, state) ==
    [k \in (DOMAIN T) \cup {vid} |-> IF k = vid THEN state ELSE T[k]]

\* variant of GetTask: an unknown identifier is reported as not found
GetTaskNotFound(T, vid) == IF vid \in DOMAIN T THEN T[vid] ELSE <<"error:", "not found">>

\* TASKS.get(vid, "pending")
GetTask(T, vid) == IF vid \in DOMAIN T THEN T[vid] ELSE Pending

\* None, kept as a token sequence like the state strings it is compared with
None == <<"None">>

\* variant of StatusBody: the error field carries every state but "ready"
StatusBodyAnyError(T, vid) ==
    LET state == GetTask(T, vid)
    IN  [ready |-> state = Ready,
         error |-> IF state # Ready THEN state ELSE None]

\* the JSON body of status(vid)
StatusBody(T, vid) ==
    LET state == GetTask(T, vid)
    IN  [ready |-> state = Ready,
         error |-> IF StartsWithError(state) THEN state ELSE None]

\* str(exc) of the exceptions the worker's collaborators raise
MathError == "SympifyError"
RenderError == "RenderError"
MoveError == "FileNotFoundError"

----------------------------------------------------------------------------
(* _flatten_to_video_dir *)

\* src_dir.rglob("*.mp4")
RglobMp4(f, src) == {p \in DOMAIN f : IsUnder(src, p) /\ IsMp4(BaseName(p))}

\* variant of FlattenMoveBody: a file whose name is taken in the store root
\* is left where it is
FlattenMoveKeepsOccupant(f, p) ==
    IF Parent(p) = VIDEO_DIR \/ Exists(f, VIDEO_DIR \o <<BaseName(p)>>)
    THEN [raised |-> FALSE, fs |-> f]
    ELSE [raised |-> ~Exists(f, p),
          fs |-> IF Exists(f, p) THEN ShutilMove(f, p, VIDEO_DIR \o <<BaseName(p)>>) ELSE f]

\* variant of FlattenMoveBody: the relocated file is renamed after the
\* directory it came from
FlattenMoveRenames(f, p) ==
    IF Parent(p) = VIDEO_DIR
    THEN [raised |-> FALSE, fs |-> f]
    ELSE LET dest == VIDEO_DIR \o <<Mp4Name(BaseName(Parent(p))[1] \o "_" \o BaseName(p)[1])>>
             f1 == IF Exists(f, dest) THEN Unlink(f, dest) ELSE f
         IN  IF Exists(f1, p)
             THEN [raised |-> FALSE, fs |-> ShutilMove(f1, p, dest)]
             ELSE [raised |-> TRUE, fs |-> f1]

\* one iteration of the move loop for the listed path p: the file system it
\* leaves and whether shutil.move raised (p was gone)
FlattenMoveBody(f, p) ==
    IF Parent(p) = VIDEO_DIR
    THEN [raised |-> FALSE, fs |-> f]
    ELSE LET dest == VIDEO_DIR \o <<BaseName(p)>>
             f1 == IF Exists(f, dest) THEN Unlink(f, dest) ELSE f
         IN  IF Exists(f1, p)
             THEN [raised |-> FALSE, fs |-> ShutilMove(f1, p, dest)]
             ELSE [raised |-> TRUE, fs |-> f1]

\* p.rmdir() succeeds only on a directory with no entries
RmdirOk(f, ds, p) == /\ p \in ds
                     /\ ~ \E q \in DOMAIN f : Parent(q) = p
                     /\ ~ \E d \in ds : Parent(d) = p

MaxDepth(ds) == IF ds = {} THEN 0
                ELSE CHOOSE n \in {Len(d) : d \in ds} :
                        \A d \in ds : Len(d) <= n

\* variant of PruneFrom: the paths are tried in sorted order, not reversed,
\* so a directory is tried before the directories below it
RECURSIVE PruneForward(_, _, _, _)
PruneForward(k, f, ds, src) ==
    LET RECURSIVE Up(_, _)
        Up(j, cur) ==
            IF j > k THEN cur
            ELSE Up(j + 1,
                    cur \ {d \in cur : Len(d) = j /\ IsUnder(src, d) /\ RmdirOk(f, cur, d)})
    IN  Up(Len(src) + 1, ds)

\* the rmdir loop over sorted(src_dir.rglob("*"), reverse=True): in that order
\* every path comes after the paths below it, so the directories of depth k
\* are tried before those of depth k - 1
RECURSIVE PruneFrom(_, _, _, _)
PruneFrom(k, f, ds, src) ==
    IF k <= Len(src) THEN ds
    ELSE PruneFrom(k - 1, f,
                   ds \ {d \in ds : Len(d) = k /\ IsUnder(src, d) /\ RmdirOk(f, ds, d)},
                   src)

PruneDirs(f, ds, src) == PruneFrom(MaxDepth(ds), f, ds, src)

----------------------------------------------------------------------------
(* The desktop application (src/main.py): the IntegralApp object, its Tk   *)
(* event queue and its solve worker threads, kept in the record gui.       *)
(* Times are counted in thirds of a second, so that dur / 3.0 is exact.    *)

NORMAL == "normal"
DISABLED == "disabled"

\* largest video duration, in seconds, that the player may report
MaxDuration == 9

\* videoplayer.video_info().get("duration", 0)
Durations == (-1)..MaxDuration

ThirdsPerSecond == 3

\* int(t) of a time t >= 0
IntSeconds(t) == t \div ThirdsPerSecond

NoSeek == -1

\* IntegralApp.__init__
GuiInit == [solve_btn |-> NORMAL, prev_btn |-> DISABLED, next_btn |-> DISABLED,
            step_times |-> <<>>, current_step |-> 0,
            running |-> 0, after |-> <<>>,
            duration |-> 0, seek |-> NoSeek, dialog |-> ""]

\* variant of StartSolve: the Solve button is left enabled while computing
StartSolveKeepsButton(g, integrand, lower, upper) ==
    IF Strip(integrand) = <<>> \/ Strip(lower) = <<>> \/ Strip(upper) = <<>>
    THEN [g EXCEPT !.dialog = "Please fill in the integrand and both bounds."]
    ELSE [g EXCEPT !.prev_btn = DISABLED, !.next_btn = DISABLED, !.running = @ + 1]

\* start_solve with the three entries as typed
StartSolve(g, integrand, lower, upper) ==
    IF Strip(integrand) = <<>> \/ Strip(lower) = <<>> \/ Strip(upper) = <<>>
    THEN [g EXCEPT !.dialog = "Please fill in the integrand and both bounds."]
    ELSE [g EXCEPT !.solve_btn = DISABLED, !.prev_btn = DISABLED,
                   !.next_btn = DISABLED, !.running = @ + 1]

\* variant of FinishRender: the duration is not tested
FinishRenderUnchecked(g, dur) ==
    LET seg == (dur * ThirdsPerSecond) \div 3
    IN  [g EXCEPT !.duration = dur,
                  !.step_times = <<0, seg, 2 * seg>>, !.current_step = 0,
                  !.solve_btn = NORMAL, !.prev_btn = DISABLED,
                  !.next_btn = NORMAL]

\* finish_render, the loaded video reporting the duration dur (in seconds)
FinishRender(g, dur) ==
    IF dur <= 0
    THEN [g EXCEPT !.duration = dur, !.dialog = "Could not read video duration.",
                   !.solve_btn = NORMAL]
    ELSE LET seg == (dur * ThirdsPerSecond) \div 3
         IN  [g EXCEPT !.duration = dur,
                       !.step_times = <<0, seg, 2 * seg>>, !.current_step = 0,
                       !.solve_btn = NORMAL, !.prev_btn = DISABLED,
                       !.next_btn = NORMAL]

\* step_times[k] with Python's indices, which start at 0
StepTime(g, k) == g.step_times[k + 1]

\* variant of PrevStep: the Next button is left as it was
PrevStepForgetsNext(g) ==
    LET moved == IF g.current_step > 0
                 THEN [g EXCEPT !.current_step = @ - 1,
                                !.seek = IntSeconds(StepTime(g, g.current_step - 1))]
                 ELSE g
    IN  [moved EXCEPT !.prev_btn = IF moved.current_step > 0 THEN NORMAL ELSE DISABLED]

\* prev_step
PrevStep(g) ==
    LET moved == IF g.current_step > 0
                 THEN [g EXCEPT !.current_step = @ - 1,
                                !.seek = IntSeconds(StepTime(g, g.current_step - 1))]
                 ELSE g
    IN  [moved EXCEPT !.prev_btn = IF moved.current_step > 0 THEN NORMAL ELSE DISABLED,
                      !.next_btn = NORMAL]

\* variant of NextStep: the position wraps around to the first step
NextStepWraps(g) ==
    LET last == Len(g.step_times) - 1
        moved == IF last >= 0
                 THEN [g EXCEPT !.current_step = (@ + 1) % (last + 1),
                                !.seek = IntSeconds(StepTime(g, (g.current_step + 1) % (last + 1)))]
                 ELSE g
    IN  [moved EXCEPT !.next_btn = IF moved.current_step < last THEN NORMAL ELSE DISABLED,
                      !.prev_btn = NORMAL]

\* next_step
NextStep(g) ==
    LET last == Len(g.step_times) - 1
        moved == IF g.current_step < last
                 THEN [g EXCEPT !.current_step = @ + 1,
                                !.seek = IntSeconds(StepTime(g, g.current_step + 1))]
                 ELSE g
    IN  [moved EXCEPT !.next_btn = IF moved.current_step < last THEN NORMAL ELSE DISABLED,
                      !.prev_btn = NORMAL]

WebVars == <<TASKS, fs, dirs, workers, issued, response, harness>>

\* the Solve button is pressed: Tk runs the command of an enabled button only
PressSolve ==
    /\ gui.solve_btn = NORMAL
    /\ \E integrand, lower, upper \in FieldValues :
          gui' = StartSolve(gui, integrand, lower, upper)
    /\ UNCHANGED WebVars

\* solve_worker ends its try block: finish_render is queued on the main loop
SolveWorkerOk ==
    /\ gui.running > 0
    /\ gui' = [gui EXCEPT !.running = @ - 1, !.after = Append(@, "finish_render")]
    /\ UNCHANGED WebVars

\* solve_worker catches an exception: the error box and the re-enabling of
\* the Solve button are queued on the main loop
SolveWorkerFails ==
    /\ gui.running > 0
    /\ gui' = [gui EXCEPT !.running = @ - 1,
                          !.after = @ \o <<"showerror", "enable_solve">>]
    /\ UNCHANGED WebVars

\* the main loop runs the oldest queued callback
RunCallback ==
    /\ gui.after # <<>>
    /\ LET cb == Head(gui.after)
           g == [gui EXCEPT !.after = Tail(@)]
       IN  \/ /\ cb = "finish_render"
              /\ \E dur \in Durations : gui' = FinishRender(g, dur)
           \/ /\ cb = "showerror"
              /\ gui' = [g EXCEPT !.dialog = "solve failed"]
           \/ /\ cb = "enable_solve"
              /\ gui' = [g EXCEPT !.solve_btn = NORMAL]
    /\ UNCHANGED WebVars

PressPrev ==
    /\ gui.prev_btn = NORMAL
    /\ gui' = PrevStep(gui)
    /\ UNCHANGED WebVars

PressNext ==
    /\ gui.next_btn = NORMAL
    /\ gui' = NextStep(gui)
    /\ UNCHANGED WebVars

\* prev_step and next_step called as methods, whatever the buttons show
CallPrev ==
    /\ gui' = PrevStep(gui)
    /\ UNCHANGED WebVars

CallNext ==
    /\ gui' = NextStep(gui)
    /\ UNCHANGED WebVars

----------------------------------------------------------------------------
(* State after the module is loaded: VIDEO_DIR exists and is empty, no job *)
(* is registered, no thread runs, no request has been answered.            *)

NoResponse == [kind |-> "none"]
Idle == [phase |-> "idle"]

Init == /\ TASKS = [k \in {} |-> Pending]
        /\ fs = NoFiles
        /\ dirs = {}
        /\ workers = <<>>
        /\ issued = 0
        /\ response = NoResponse
        /\ harness = Idle
        /\ gui = GuiInit

----------------------------------------------------------------------------
(* index(), POST branch *)

Forms == [FieldNames -> FieldValues]

StripForm(raw) == [k \in FieldNames |-> Strip(raw[k])]

\* all(form.values()): every stripped field is non-empty
AllFilled(form) == \A k \in FieldNames : form[k] # <<>>

\* the thread object created for generate_integral_video(..., outfile, vid),
\* before its first statement has run
NewWorker(form, outfile, vid) ==
    [args |-> form, outfile |-> outfile, vid |-> vid, pc |-> "start",
     movie |-> <<>>, src |-> <<>>, todo |-> {}, subs |-> {}, ret |-> "",
     exc |-> ""]

\* variant of StartThread: the thread is started twice
StartThreadTwice(ws, form, outfile, vid) ==
    Append(Append(ws, NewWorker(form, outfile, vid)), NewWorker(form, outfile, vid))

\* threading.Thread(target=generate_integral_video, args=...).start()
StartThread(ws, form, outfile, vid) == Append(ws, NewWorker(form, outfile, vid))

IndexPost(raw) ==
    LET form == StripForm(raw)
    IN  IF ~AllFilled(form)
        THEN /\ response' = [kind |-> "redirect", to |-> "index",
                             flash |-> "Please fill in the integrand and all bounds."]
             /\ UNCHANGED <<TASKS, fs, dirs, workers, issued, harness, gui>>
        ELSE /\ issued < MaxJobs
             /\ LET vid == Vid(issued + 1)
                    video_path == VideoPath(vid)
                IN  /\ issued' = issued + 1
                    /\ workers' = StartThread(workers, form, video_path, vid)
                    /\ response' = [kind |-> "redirect", to |-> "result", vid |-> vid]
             /\ UNCHANGED <<TASKS, fs, dirs, harness, gui>>

----------------------------------------------------------------------------
(* status(vid) *)

\* the identifiers a client may poll: every one issued or not
PollIds == {Vid(n) : n \in 1..(MaxJobs + 1)}

Status(vid) ==
    /\ response' = [kind |-> "status", vid |-> vid, body |-> StatusBody(TASKS, vid)]
    /\ UNCHANGED <<TASKS, fs, dirs, workers, issued, harness, gui>>

----------------------------------------------------------------------------
(* generate_integral_video, one thread per accepted submission.  A step is *)
(* one statement that touches the registry or the file system, or one call *)
(* into the math engine or the rendering engine.                           *)

Threads == DOMAIN workers

At(i, pc) == workers[i].pc = pc

Goto(i, pc) == [workers EXCEPT ![i].pc = pc]

\* variant of Raise: the exception is not caught and ends the thread
RaiseEscapes(i, exc) == [workers EXCEPT ![i].pc = "dead", ![i].exc = exc]

\* an exception raised inside the try block: control passes to the handler
Raise(i, exc) == [workers EXCEPT ![i].pc = "except", ![i].exc = exc]

\* line 81: TASKS[vid] = "pending"
Register(i) ==
    /\ At(i, "start")
    /\ TASKS' = SetTask(TASKS, workers[i].vid, Pending)
    /\ workers' = Goto(i, "solve")
    /\ UNCHANGED <<fs, dirs, issued, response, harness, gui>>

\* lines 84-100: the math engine returns the derivation
SolveOk(i) ==
    /\ At(i, "solve")
    /\ workers' = Goto(i, "render")
    /\ UNCHANGED <<TASKS, fs, dirs, issued, response, harness, gui>>

\* lines 84-100: the math engine raises
SolveFails(i) ==
    /\ At(i, "solve")
    /\ workers' = Raise(i, MathError)
    /\ UNCHANGED <<TASKS, fs, dirs, issued, response, harness, gui>>

\* scene.render(), first part: the engine writes a fragment of the job's
\* movie into its fragment directory
RenderFragment(i) ==
    /\ At(i, "render")
    /\ \E name \in FragNames :
          LET p == FragDir \o <<name>>
          IN  /\ fs' = WriteFile(fs, p, workers[i].vid)
              /\ dirs' = dirs \cup Ancestors(p)
    /\ workers' = Goto(i, "combine")
    /\ UNCHANGED <<TASKS, issued, response, harness, gui>>

\* scene.render(), second part: the engine writes the fragment list and the
\* finished movie at a path of its own choosing, and returns
RenderMovie(i) ==
    /\ At(i, "combine")
    /\ \E m \in EngineMoviePaths :
          /\ fs' = WriteFile(WriteFile(fs, FragList, "list"), m, workers[i].vid)
          /\ dirs' = dirs \cup Ancestors(FragList) \cup Ancestors(m)
          /\ workers' = [workers EXCEPT ![i].pc = "move", ![i].movie = m]
    /\ UNCHANGED <<TASKS, issued, response, harness, gui>>

\* scene.render() raises, before or after it wrote fragments
RenderFails(i) ==
    /\ At(i, "render") \/ At(i, "combine")
    /\ workers' = Raise(i, RenderError)
    /\ UNCHANGED <<TASKS, fs, dirs, issued, response, harness, gui>>

\* variant of MoveFinal: the job is marked ready right after the move, before
\* the sweeps that may still raise
MoveFinalMarksReady(i) ==
    /\ At(i, "move")
    /\ IF Exists(fs, workers[i].movie)
       THEN /\ fs' = ShutilMove(fs, workers[i].movie, workers[i].outfile)
            /\ TASKS' = SetTask(TASKS, workers[i].vid, Ready)
            /\ workers' = Goto(i, "flatten_partial")
       ELSE /\ workers' = Raise(i, MoveError)
            /\ UNCHANGED <<fs, TASKS>>
    /\ UNCHANGED <<dirs, issued, response, harness, gui>>

\* line 119: shutil.move(movie_file_path, outfile)
MoveFinal(i) ==
    /\ At(i, "move")
    /\ IF Exists(fs, workers[i].movie)
       THEN /\ fs' = ShutilMove(fs, workers[i].movie, workers[i].outfile)
            /\ workers' = Goto(i, "flatten_partial")
       ELSE /\ workers' = Raise(i, MoveError)
            /\ UNCHANGED fs
    /\ UNCHANGED <<TASKS, dirs, issued, response, harness, gui>>

\* entering _flatten_to_video_dir(src) with return address ret: the
\* existence test of line 56 and the listing that rglob of line 59 takes
EnterFlatten(i, src, ret, rest) ==
    IF ~DirExists(dirs, src)
    THEN [workers EXCEPT ![i].pc = ret, ![i].subs = rest]
    ELSE [workers EXCEPT ![i].pc = "flatten_loop", ![i].src = src,
                         ![i].todo = RglobMp4(fs, src), ![i].ret = ret,
                         ![i].subs = rest]

\* line 123: _flatten_to_video_dir(partial_root)
FlattenPartial(i) ==
    /\ At(i, "flatten_partial")
    /\ workers' = EnterFlatten(i, PARTIAL_ROOT, "list_subs", {})
    /\ UNCHANGED <<TASKS, fs, dirs, issued, response, harness, gui>>

\* lines 59-65: one iteration of the move loop
FlattenMove(i) ==
    /\ At(i, "flatten_loop")
    /\ \E p \in workers[i].todo :
          LET r == FlattenMoveBody(fs, p)
          IN  /\ fs' = r.fs
              /\ workers' = IF r.raised
                            THEN Raise(i, MoveError)
                            ELSE [workers EXCEPT ![i].todo = @ \ {p}]
    /\ UNCHANGED <<TASKS, dirs, issued, response, harness, gui>>

\* lines 68-72: the listing is exhausted; prune and return
FlattenPrune(i) ==
    /\ At(i, "flatten_loop")
    /\ workers[i].todo = {}
    /\ dirs' = PruneDirs(fs, dirs, workers[i].src)
    /\ workers' = Goto(i, workers[i].ret)
    /\ UNCHANGED <<TASKS, fs, issued, response, harness, gui>>

\* line 126: VIDEO_DIR.iterdir() lists the entries of the store root; the
\* directories among them other than partial_movie_files are kept
SubDirs(ds) == {d \in ds : Len(d) = 1 /\ d # PARTIAL_ROOT}

ListSubs(i) ==
    /\ At(i, "list_subs")
    /\ workers' = [workers EXCEPT ![i].pc = "sub_loop", ![i].subs = SubDirs(dirs)]
    /\ UNCHANGED <<TASKS, fs, dirs, issued, response, harness, gui>>

\* lines 126-128: the next listed sub-folder is flattened
FlattenSub(i) ==
    /\ At(i, "sub_loop")
    /\ \E sub \in workers[i].subs :
          workers' = EnterFlatten(i, sub, "sub_loop", workers[i].subs \ {sub})
    /\ UNCHANGED <<TASKS, fs, dirs, issued, response, harness, gui>>

\* line 130: TASKS[vid] = "ready"
SetReady(i) ==
    /\ At(i, "sub_loop")
    /\ workers[i].subs = {}
    /\ TASKS' = SetTask(TASKS, workers[i].vid, Ready)
    /\ workers' = Goto(i, "done")
    /\ UNCHANGED <<fs, dirs, issued, response, harness, gui>>

\* variant of ExceptUnlink: the handler leaves the file at outfile
ExceptKeepsFile(i) ==
    /\ At(i, "except")
    /\ workers' = Goto(i, "set_error")
    /\ UNCHANGED <<TASKS, fs, dirs, issued, response, harness, gui>>

\* variant of ExceptUnlink: the handler removes every file of the store root
ExceptUnlinksRoot(i) ==
    /\ At(i, "except")
    /\ fs' = [q \in {p \in DOMAIN fs : Parent(p) # VIDEO_DIR} |-> fs[q]]
    /\ workers' = Goto(i, "set_error")
    /\ UNCHANGED <<TASKS, dirs, issued, response, harness, gui>>

\* line 134: outfile.unlink(missing_ok=True)
ExceptUnlink(i) ==
    /\ At(i, "except")
    /\ fs' = Unlink(fs, workers[i].outfile)
    /\ workers' = Goto(i, "set_error")
    /\ UNCHANGED <<TASKS, dirs, issued, response, harness, gui>>

\* line 135: TASKS[vid] = f"error:{exc}"
SetError(i) ==
    /\ At(i, "set_error")
    /\ TASKS' = SetTask(TASKS, workers[i].vid, ErrorState(workers[i].exc))
    /\ workers' = Goto(i, "done")
    /\ UNCHANGED <<fs, dirs, issued, response, harness, gui>>

WorkerStep(i) ==
    \/ Register(i)
    \/ SolveOk(i)
    \/ SolveFails(i)
    \/ RenderFragment(i)
    \/ RenderMovie(i)
    \/ RenderFails(i)
    \/ MoveFinal(i)
    \/ FlattenPartial(i)
    \/ FlattenMove(i)
    \/ FlattenPrune(i)
    \/ ListSubs(i)
    \/ FlattenSub(i)
    \/ SetReady(i)
    \/ ExceptUnlink(i)
    \/ SetError(i)

Next ==
    \/ \E raw \in Forms : IndexPost(raw)
    \/ \E vid \in PollIds : Status(vid)
    \/ \E i \in Threads : WorkerStep(i)

Spec == Init /\ [][Next]_vars

----------------------------------------------------------------------------
(* result(vid) and latex_preview(), the two views that read without        *)
(* starting a job                                                           *)

\* result(vid): ready=video_path.exists()
Result(vid) ==
    /\ response' = [kind |-> "result", vid |-> vid,
                    ready |-> Exists(fs, VideoPath(vid))]
    /\ UNCHANGED <<TASKS, fs, dirs, workers, issued, harness, gui>>

\* a value of the posted JSON object: a string, a number, or no such key
JsonString(s) == [type |-> "string", text |-> s]
JsonNumber == [type |-> "number", text |-> <<"5">>]
Missing == [type |-> "missing", text |-> <<>>]

\* what a client may post for one key of the preview request
PreviewValues(k) ==
    CASE k = "integrand" -> {Missing, JsonString(<<" ", "x", " ">>),
                             JsonString(<<"pi">>), JsonString(<<"(">>), JsonNumber}
      [] k = "variable"  -> {Missing, JsonNumber}
      [] k = "lower"     -> {JsonString(<<"pi">>), JsonString(<<"(">>)}
      [] k = "upper"     -> {JsonString(<<" ">>), JsonString(<<"x">>)}

PreviewData == {d \in [FieldNames -> UNION {PreviewValues(k) : k \in FieldNames}] :
                   \A k \in FieldNames : d[k] \in PreviewValues(k)}

\* data.get(key, default)
DataGet(data, k, default) == IF data[k] = Missing THEN JsonString(default) ELSE data[k]

\* only str has a strip method
HasStrip(v) == v.type = "string"

SyntaxError == <<"SyntaxError">>

\* parse_expr: an unbalanced parenthesis does not parse; otherwise the
\* expression is the sequence of its symbols
ParseExpr(s) ==
    IF \E n \in 1..Len(s) : s[n] = "("
    THEN SyntaxError
    ELSE SelectSeq(s, LAMBDA c : ~IsSpace(c))

\* sympy.latex
Latex(e) == [n \in 1..Len(e) |-> IF e[n] = "pi" THEN "\\pi" ELSE e[n]]

EmptyMarkup == [expr |-> <<>>, lower |-> <<>>, upper |-> <<>>]

\* the body of latex_preview for the posted object data: the four reads of
\* lines 185-188, then the try block of lines 190-206
LatexPreviewResponse(data) ==
    LET integrand == DataGet(data, "integrand", <<>>)
        variable == DataGet(data, "variable", <<"x">>)
        lower == DataGet(data, "lower", <<>>)
        upper == DataGet(data, "upper", <<>>)
        Tex(v) == IF Strip(v.text) = <<>> THEN <<>> ELSE Latex(ParseExpr(Strip(v.text)))
        Fails(v) == Strip(v.text) # <<>> /\ ParseExpr(Strip(v.text)) = SyntaxError
    IN  IF \E v \in {integrand, variable, lower, upper} : ~HasStrip(v)
        THEN [kind |-> "latex", status |-> 500, exc |-> "AttributeError"]
        ELSE IF Fails(integrand) \/ Fails(lower) \/ Fails(upper)
        THEN [kind |-> "latex", status |-> 200, body |-> EmptyMarkup, exc |-> ""]
        ELSE [kind |-> "latex", status |-> 200,
              body |-> [expr |-> Tex(integrand), lower |-> Tex(lower),
                        upper |-> Tex(upper)],
              exc |-> ""]

LatexPreview(data) ==
    /\ response' = LatexPreviewResponse(data)
    /\ UNCHANGED <<TASKS, fs, dirs, workers, issued, harness, gui>>

NextViews ==
    \/ \E raw \in Forms : IndexPost(raw)
    \/ \E vid \in PollIds : Status(vid)
    \/ \E i \in Threads : WorkerStep(i)
    \/ \E vid \in PollIds : Result(vid)
    \/ \E data \in PreviewData : LatexPreview(data)

SpecViews == Init /\ [][NextViews]_vars

----------------------------------------------------------------------------
(* _flatten_to_video_dir on its own: one caller applies it twice in a row  *)
(* to the same src_dir, starting from any directory tree below VIDEO_DIR.  *)
(* A file's content is the path it had in the starting tree.               *)

\* the quality sub-folder with a fragment directory of its own
QualityFragDir == QualityDir \o <<DirName("partial_movie_files"), DirName(SceneName)>>

TreeDirs == {PARTIAL_ROOT, FragDir, QualityDir, Parent(QualityFragDir), QualityFragDir}

TreeVideoNames == FragNames \cup {Mp4Name(SceneName)}

TreeFiles == {d \o <<n>> : d \in {VIDEO_DIR, FragDir, QualityDir}, n \in TreeVideoNames}
                \cup {FragList}

Snapshot == [fs |-> fs, dirs |-> dirs]

InitFlatten ==
    /\ \E S \in SUBSET TreeFiles : fs = [p \in S |-> p]
    /\ dirs \in SUBSET TreeDirs
    /\ \A d \in dirs : Ancestors(d) \subseteq dirs
    /\ \A p \in DOMAIN fs : Ancestors(p) \subseteq dirs
    /\ \E src \in TreeDirs \cup {VIDEO_DIR} :
          harness = [phase |-> "call", src |-> src, todo |-> {}, calls |-> 0,
                     before |-> Snapshot, after1 |-> Snapshot,
                     touched |-> FALSE, raised |-> FALSE]
    /\ TASKS = [k \in {} |-> Pending]
    /\ workers = <<>>
    /\ issued = 0
    /\ response = NoResponse
    /\ gui = GuiInit

\* the call returns: after the first the second is made, after the second
\* the caller is done
Returned(h, snap) ==
    IF h.calls = 0
    THEN [h EXCEPT !.phase = "call", !.calls = 1, !.after1 = snap, !.todo = {}]
    ELSE [h EXCEPT !.phase = "done", !.calls = 2, !.todo = {}]

\* lines 56-59: the existence test and the listing
HarnessCall ==
    /\ harness.phase = "call"
    /\ harness' = IF ~DirExists(dirs, harness.src)
                  THEN Returned(harness, Snapshot)
                  ELSE [harness EXCEPT !.phase = "loop",
                                       !.todo = RglobMp4(fs, harness.src)]
    /\ UNCHANGED <<TASKS, fs, dirs, workers, issued, response, gui>>

\* lines 59-65: one iteration of the move loop
HarnessMove ==
    /\ harness.phase = "loop"
    /\ \E p \in harness.todo :
          LET r == FlattenMoveBody(fs, p)
          IN  /\ fs' = r.fs
              /\ harness' = IF r.raised
                            THEN [harness EXCEPT !.phase = "done", !.raised = TRUE]
                            ELSE [harness EXCEPT
                                    !.todo = @ \ {p},
                                    !.touched = @ \/ (harness.calls = 1 /\ r.fs # fs)]
    /\ UNCHANGED <<TASKS, dirs, workers, issued, response, gui>>

\* lines 68-72: prune and return
HarnessPrune ==
    /\ harness.phase = "loop"
    /\ harness.todo = {}
    /\ dirs' = PruneDirs(fs, dirs, harness.src)
    /\ harness' = Returned([harness EXCEPT
                              !.touched = @ \/ (harness.calls = 1 /\ dirs' # dirs)],
                           [fs |-> fs, dirs |-> dirs'])
    /\ UNCHANGED <<TASKS, fs, workers, issued, response, gui>>

NextFlatten ==
    \/ HarnessCall
    \/ HarnessMove
    \/ HarnessPrune

SpecFlatten == InitFlatten /\ [][NextFlatten]_vars

----------------------------------------------------------------------------
(* The desktop application on its own: button presses, worker threads and  *)
(* the callbacks they queue.                                               *)

NextDesktop ==
    \/ PressSolve
    \/ SolveWorkerOk
    \/ SolveWorkerFails
    \/ RunCallback
    \/ PressPrev
    \/ PressNext

SpecDesktop == Init /\ [][NextDesktop]_vars

\* the same, with prev_step and next_step called in any state
NextNav ==
    \/ PressSolve
    \/ SolveWorkerOk
    \/ SolveWorkerFails
    \/ RunCallback
    \/ CallPrev
    \/ CallNext

SpecNav == Init /\ [][NextNav]_vars

----------------------------------------------------------------------------
(* Vocabulary of the properties *)

IssuedVids == {Vid(n) : n \in 1..issued}

NeverSubmitted(vid) == vid \notin IssuedVids

WorkersOf(vid) == {i \in Threads : workers[i].vid = vid}

IsTerminal(state) == state = Ready \/ StartsWithError(state)

PendingBody == [ready |-> FALSE, error |-> None]

Accepted(r) == r.kind = "redirect" /\ r.to = "result"
Rejected(r) == r.kind = "redirect" /\ r.to = "index"
Polled(r, vid) == r.kind = "status" /\ r.vid = vid

----------------------------------------------------------------------------
(* C1: the state of a job seen through the registry is monotonic: Pending  *)
(* until one terminal write by the job's worker (Ready, or Error with the   *)
(* worker's message), never changed afterwards; and what a poll reported    *)
(* is Pending or that terminal value.                                       *)

C1_Step ==
    \A vid \in PollIds :
        LET old == GetTask(TASKS, vid)
            new == GetTask(TASKS', vid)
        IN  /\ IsTerminal(old) => new = old
            /\ new # old =>
                  /\ old = Pending
                  /\ \E i \in WorkersOf(vid) :
                        new = Ready \/ new = ErrorState(workers[i].exc)

C1_Observed ==
    \A vid \in PollIds :
        Polled(response, vid) =>
            \/ response.body = PendingBody
            \/ response.body = StatusBody(TASKS, vid) /\ IsTerminal(GetTask(TASKS, vid))

C1_Monotonic == [][C1_Step]_vars /\ [](C1_Observed)

\* a poll has reported the Error of one job while another job is Ready
C1_Witness ==
    \E vid \in PollIds :
        /\ Polled(response, vid)
        /\ StartsWithError(GetTask(TASKS, vid))
        /\ response.body.error = GetTask(TASKS, vid)
        /\ \E other \in DOMAIN TASKS : TASKS[other] = Ready

----------------------------------------------------------------------------
(* C2 as stated: when submit has returned the job id, the registry holds a *)
(* Pending entry for it, inserted before the worker executed any step, and *)
(* exactly one worker was started for it.                                  *)

C2_EntryAtReturn ==
    /\ Accepted(response) => response.vid \in DOMAIN TASKS
    /\ \A i \in Threads : workers[i].vid \in DOMAIN TASKS
    /\ \A vid \in IssuedVids : Cardinality(WorkersOf(vid)) = 1

(* C2 as amended: when submit has returned the job id, exactly one worker  *)
(* was started for it and none for any other identifier; the Pending entry *)
(* is inserted by that worker as its first step, so the registry holds an  *)
(* entry for the job exactly when its worker has executed that step, the   *)
(* entry is Pending until the worker is done, and no entry exists for an   *)
(* identifier that was not issued.                                         *)

C2_WorkerRegisters ==
    /\ Accepted(response) => Cardinality(WorkersOf(response.vid)) = 1
    /\ \A vid \in IssuedVids : Cardinality(WorkersOf(vid)) = 1
    /\ Len(workers) = issued
    /\ DOMAIN TASKS \subseteq IssuedVids
    /\ \A i \in Threads :
          /\ workers[i].pc = "start" <=> workers[i].vid \notin DOMAIN TASKS
          /\ workers[i].pc \notin {"start", "done"} => TASKS[workers[i].vid] = Pending

\* submit has returned the job id and the job's worker has not run yet: the
\* registry has no entry for it
C2_Witness ==
    /\ Accepted(response)
    /\ response.vid \notin DOMAIN TASKS
    /\ \E i \in WorkersOf(response.vid) : workers[i].pc = "start"

----------------------------------------------------------------------------
(* C3: submit returns the job id without waiting for the job's worker (a   *)
(* valid submission can be answered in every state, whatever the workers   *)
(* are doing, and the worker it starts has not run when it returns), and a *)
(* poll for the job before its worker's terminal write reports             *)
(* ready=false, error=null.                                                *)

ValidForm == [k \in FieldNames |-> <<" ", "x", " ">>]

C3_SubmitStep ==
    (Accepted(response') /\ issued' # issued) =>
        /\ workers'[Len(workers')].pc = "start"
        /\ workers'[Len(workers')].vid = response'.vid
        /\ SubSeq(workers', 1, Len(workers)) = workers

C3_PollStep ==
    \A vid \in IssuedVids :
        (/\ Polled(response', vid)
         /\ response' # response
         /\ \A i \in WorkersOf(vid) : workers[i].pc # "done")
        => response'.body = PendingBody

C3_NonBlocking ==
    /\ [][C3_SubmitStep /\ C3_PollStep]_vars
    /\ [](issued < MaxJobs => ENABLED IndexPost(ValidForm))

\* a poll right after the return, before the worker has run, reported
\* pending while an earlier job's worker is still rendering
C3_Witness ==
    /\ Polled(response, Vid(issued))
    /\ response.body = PendingBody
    /\ \E i \in WorkersOf(Vid(issued)) : workers[i].pc = "start"
    /\ \E j \in Threads : workers[j].pc = "combine"

----------------------------------------------------------------------------
(* C4: for a job id that was never submitted, status reports ready=false,  *)
(* error=null in every reachable state, and a poll for it leaves no entry  *)
(* in the registry.                                                        *)

C4_UnknownIsPending ==
    \A vid \in PollIds :
        NeverSubmitted(vid) =>
            /\ StatusBody(TASKS, vid) = PendingBody
            /\ vid \notin DOMAIN TASKS
            /\ Polled(response, vid) => response.body = PendingBody

\* a never-submitted id has been polled while one job is Ready and another
\* has failed
C4_Witness ==
    /\ \E vid \in PollIds : NeverSubmitted(vid) /\ Polled(response, vid)
    /\ \E a \in DOMAIN TASKS : TASKS[a] = Ready
    /\ \E b \in DOMAIN TASKS : StartsWithError(TASKS[b])

----------------------------------------------------------------------------
(* C5: a submission with an empty or whitespace-only field is rejected: no *)
(* job id is returned, no worker is started, and the registry and the      *)
(* output store are as before the call.                                    *)

IsBlank(s) == \A k \in 1..Len(s) : s[k] = " "

HasBlankField(raw) == \E k \in FieldNames : IsBlank(raw[k])

Store == <<TASKS, fs, dirs, workers, issued>>

\* a step that answers with a job id, or that changes the registry, the
\* store, the threads or the identifiers issued, is not the step of a
\* submission with a blank field; a step that answers with the rejection
\* changes none of them
C5_Step ==
    /\ (Rejected(response') /\ response' # response) => UNCHANGED Store
    /\ ((Accepted(response') /\ response' # response) \/ Store' # Store) =>
          \A raw \in Forms : HasBlankField(raw) => ~IndexPost(raw)

C5_RejectsBlank == [][C5_Step]_vars

\* a submission has been rejected while the registry and the store hold
\* the entries of earlier jobs
C5_Witness ==
    /\ Rejected(response)
    /\ DOMAIN TASKS # {}
    /\ DOMAIN fs # {}
    /\ Len(workers) > 0

----------------------------------------------------------------------------
(* Fair scheduling of the threads: a started worker that can take a step   *)
(* eventually takes one (the math engine and the rendering engine return   *)
(* or raise in finite time).                                               *)

Fairness == \A i \in 1..(MaxJobs + 1) : WF_vars(i \in Threads /\ WorkerStep(i))

SpecFair == Init /\ [][Next]_vars /\ Fairness

(* C6: every started worker runs to completion once and its job reaches a  *)
(* terminal state, Ready or Error(message); no failure leaves the job      *)
(* Pending forever.                                                        *)

WorkerCompleted(i) ==
    /\ i \in Threads
    /\ workers[i].pc = "done"
    /\ IsTerminal(GetTask(TASKS, workers[i].vid))

C6_DoneStays ==
    \A i \in Threads :
        workers[i].pc = "done" =>
            /\ workers'[i].pc = "done"
            /\ GetTask(TASKS', workers[i].vid) = GetTask(TASKS, workers[i].vid)

C6_Terminates ==
    /\ \A i \in 1..(MaxJobs + 1) : (i \in Threads) ~> WorkerCompleted(i)
    /\ [][C6_DoneStays]_vars

\* one worker has completed with Ready, another with the Error of a failed
\* file move
C6_Witness ==
    /\ \E i \in Threads : WorkerCompleted(i) /\ GetTask(TASKS, workers[i].vid) = Ready
    /\ \E j \in Threads :
          WorkerCompleted(j) /\ GetTask(TASKS, workers[j].vid) = ErrorState(MoveError)

----------------------------------------------------------------------------
(* C7: in every reachable state in which a job's registry state is Error,  *)
(* no file exists at the job's output path.                                *)

C7_ErrorHasNoFile ==
    \A i \in Threads :
        (/\ workers[i].vid \in DOMAIN TASKS
         /\ StartsWithError(TASKS[workers[i].vid]))
        => ~Exists(fs, workers[i].outfile)

\* a job is in Error whose worker had moved the movie to its output path and
\* failed in the sweep that follows
C7_Witness ==
    \E i \in Threads :
        /\ workers[i].vid \in DOMAIN TASKS
        /\ StartsWithError(TASKS[workers[i].vid])
        /\ workers[i].src # <<>>

----------------------------------------------------------------------------
(* C8 as stated: once the workers have completed, in Ready or in Error, no *)
(* video file exists under VIDEO_DIR except directly at the root level.    *)

NestedVideos == {p \in DOMAIN fs : Len(p) > 1 /\ IsMp4(BaseName(p))}

C8_NoNestedVideo ==
    (Threads # {} /\ \A i \in Threads : workers[i].pc = "done") => NestedVideos = {}

----------------------------------------------------------------------------
(* C9: once a job is Ready, a file exists at its output path and no later  *)
(* step of any worker deletes, replaces or modifies it.                    *)

C9_Step ==
    \A i \in Threads :
        (/\ workers[i].vid \in DOMAIN TASKS
         /\ TASKS[workers[i].vid] = Ready)
        => /\ Exists(fs, workers[i].outfile)
           /\ Exists(fs', workers[i].outfile)
           /\ fs'[workers[i].outfile] = fs[workers[i].outfile]

C9_ReadyIsImmutable == [][C9_Step]_vars

\* one job is Ready and the worker of another job has since failed in its
\* sweep and cleaned up
C9_Witness ==
    \E i, j \in Threads :
        /\ GetTask(TASKS, workers[i].vid) = Ready
        /\ workers[j].pc = "done"
        /\ workers[j].src # <<>>
        /\ GetTask(TASKS, workers[j].vid) = ErrorState(MoveError)

----------------------------------------------------------------------------
(* C10: _flatten_to_video_dir is idempotent: a second call in a row on the *)
(* same root leaves the files and directories of the first call and moves  *)
(* and deletes nothing; on a root that does not exist a call changes       *)
(* nothing; and no call raises.                                            *)

C10_FlattenIdempotent ==
    /\ ~harness.raised
    /\ harness.phase = "done" =>
          /\ Snapshot = harness.after1
          /\ ~harness.touched
          /\ ~DirExists(harness.before.dirs, harness.src) => Snapshot = harness.before

\* the two calls are over and the first moved files and removed directories
C10_Witness ==
    /\ harness.phase = "done"
    /\ harness.after1.fs # harness.before.fs
    /\ harness.after1.dirs # harness.before.dirs

\* both calls were made on a root that does not exist
C10_WitnessMissingRoot ==
    /\ harness.phase = "done"
    /\ ~DirExists(harness.before.dirs, harness.src)
    /\ DOMAIN fs # {}

----------------------------------------------------------------------------
(* C11 *)

\* the answer to a preview request
Previewed == response.kind = "latex"

\* C11, first half: a preview request changes neither the registry nor the
\* store and starts no worker.
C11_NoSideEffect ==
    [][(Previewed' /\ response' # response)
          => UNCHANGED <<TASKS, fs, dirs, workers, issued>>]_vars

\* C11, second half: a preview whose fields are all strings is answered
\* normally, with empty markup for all three fields when one does not parse.
C11_ParseFailureIsBlank ==
    (Previewed /\ response.status = 200)
       => \/ response.body = EmptyMarkup
          \/ \A k \in {"expr", "lower", "upper"} : response.body[k] # SyntaxError

\* C11: preview never surfaces an error: whatever is posted, it leaves the
\* registry and the store alone and answers with markup, empty for all three
\* fields when a field does not parse, never with an error.
C11_NeverSurfacesError == Previewed => response.status = 200

\* a preview request that was answered with an error
C11_ErrorSurfaced == Previewed /\ response.status = 500

----------------------------------------------------------------------------
(* C12 *)

SegmentCount == Len(gui.step_times)
TimelineComputed == SegmentCount = 3

Min(a, b) == IF a < b THEN a ELSE b
Max(a, b) == IF a > b THEN a ELSE b

\* what a call of prev_step or next_step, the record after, did right
\* relative to the position hoped for
Advanced(after, hoped) ==
    /\ after.current_step = hoped
    /\ after.step_times = gui.step_times
    /\ IF hoped = gui.current_step
       THEN after.seek = gui.seek
       ELSE after.seek = IntSeconds(gui.step_times[hoped + 1])

\* C12: once a timeline is computed, current_step is in 0..2 whatever
\* sequence of next_step and prev_step calls was made; from every such state
\* prev_step goes to max(current - 1, 0) and next_step to min(current + 1, 2),
\* and a call that moves seeks to the seek point of the new position while a
\* clamped call seeks nowhere.
C12_ClampNeverWraps ==
    TimelineComputed =>
       /\ gui.current_step \in 0..2
       /\ Advanced(PrevStep(gui), Max(gui.current_step - 1, 0))
       /\ Advanced(NextStep(gui), Min(gui.current_step + 1, 2))

\* the last step was reached by next_step, which sought to a point that is
\* not a whole number of seconds
C12_Witness ==
    /\ TimelineComputed
    /\ gui.current_step = 2
    /\ gui.next_btn = DISABLED
    /\ gui.step_times[3] % ThirdsPerSecond # 0
    /\ gui.seek = IntSeconds(gui.step_times[3])

----------------------------------------------------------------------------
(* C13 *)

\* the main loop runs finish_render in this step
FinishRenderStep ==
    /\ gui.after # <<>>
    /\ Head(gui.after) = "finish_render"
    /\ gui'.after = Tail(gui.after)

MediaErrorText == "Could not read video duration."

\* the seek points of a video of dur seconds: 0, dur / 3 and 2 * dur / 3
SeekPoints(dur) == <<0, dur, 2 * dur>>

C13_Step ==
    FinishRenderStep =>
       IF gui'.duration > 0
       THEN /\ gui'.step_times = SeekPoints(gui'.duration)
            /\ gui'.current_step = 0
       ELSE /\ gui'.dialog = MediaErrorText
            /\ gui'.step_times = gui.step_times
            /\ gui'.current_step = gui.current_step
            /\ gui'.prev_btn = DISABLED
            /\ gui'.next_btn = DISABLED

\* C13: finish_render with a duration > 0 installs exactly the seek points
\* 0, duration / 3, 2 * duration / 3 and resets current_step to 0; with a
\* duration <= 0 it reports the media error, leaves the previous timeline and
\* position as they were, and leaves both navigation buttons disabled.
C13_Timeline == [][C13_Step]_vars

\* a second solve whose video could not be measured: the error is shown and
\* the timeline of the first video, 9 seconds long, is still installed
C13_Witness ==
    /\ gui.duration <= 0
    /\ gui.dialog = MediaErrorText
    /\ gui.step_times = <<0, 3 * ThirdsPerSecond, 6 * ThirdsPerSecond>>
    /\ gui.prev_btn = DISABLED
    /\ gui.next_btn = DISABLED
    /\ gui.solve_btn = NORMAL

----------------------------------------------------------------------------
(* C14 *)

\* worker i has solved, rendered and moved its movie to outfile, and has
\* entered a sweep (only _flatten_to_video_dir records a return address)
Sweeping(i) == workers[i].ret # ""

\* worker i is in, or has left, the except branch
Failing(i) ==
    \/ workers[i].pc \in {"except", "set_error"}
    \/ StartsWithError(GetTask(TASKS, workers[i].vid))

\* C14: with several jobs in flight, a job whose solve, render and move have
\* succeeded is never turned into Error by its sweep, whatever the other
\* workers relocate or remove in the meantime.
C14_SweepToleratesOthers == \A i \in Threads : Sweeping(i) => ~Failing(i)

----------------------------------------------------------------------------
(* C15 *)

\* the files directly in the store root
RootFiles(f) == {p \in DOMAIN f : Parent(p) = VIDEO_DIR}

\* the file at p is the same before and after the step
SameFile(p) ==
    /\ Exists(fs, p) <=> Exists(fs', p)
    /\ Exists(fs, p) => fs'[p] = fs[p]

\* worker i takes the step
StepOf(i) == i \in DOMAIN workers' /\ workers'[i] # workers[i]

C15_OriginalStep ==
    \A i \in Threads :
       StepOf(i) =>
          \A p \in RootFiles(fs) \cup RootFiles(fs') :
             p # workers[i].outfile => SameFile(p)

\* C15 as stated: no step of a worker creates, replaces or deletes a file
\* of the store root other than the worker's own outfile.
C15_WritesOnlyOutfile == [][C15_OriginalStep]_vars

C15_Step ==
    \A i \in Threads :
       StepOf(i) =>
          \A vid \in IssuedVids :
             vid # workers[i].vid => SameFile(VideoPath(vid))

\* C15, amended: no step of a worker creates, replaces or deletes the output
\* file of another job; the root files a worker writes besides its own
\* outfile carry the engine's names (a relocated fragment, the engine's
\* movie), never another job's identifier.
C15_LeavesOtherOutputs == [][C15_Step]_vars

\* one job has failed and cleaned up after the other job's output was in
\* place, and that output is still there
C15_Witness ==
    \E i, j \in Threads :
       /\ i # j
       /\ workers[i].pc = "done"
       /\ StartsWithError(GetTask(TASKS, workers[i].vid))
       /\ Sweeping(i)
       /\ Exists(fs, workers[j].outfile)
       /\ fs[workers[j].outfile] = workers[j].vid
       /\ \E p \in RootFiles(fs) : p \notin {workers[i].outfile, workers[j].outfile}

----------------------------------------------------------------------------
(* C16 *)

\* the result view has just told a client that the video of vid is ready
ResultSaysReady(vid) ==
    /\ response.kind = "result"
    /\ response.vid = vid
    /\ response.ready

\* C16: while a job is on its way into Error (its worker is in the except
\* branch) or is in Error, no file exists at its outfile, and the result
\* view has not reported it ready.
C16_FailedJobNeverExposed ==
    \A i \in Threads :
       Failing(i) =>
          /\ workers[i].pc = "except" => ~Exists(fs, workers[i].outfile)
          /\ ~ResultSaysReady(workers[i].vid)

----------------------------------------------------------------------------
(* C17 *)

\* where flatten puts the file at p
Dest(p) == VIDEO_DIR \o <<BaseName(p)>>

\* this step is the iteration of the move loop for the listed path p
Relocates(p) ==
    /\ harness.phase = "loop"
    /\ p \in harness.todo
    /\ harness'.raised \/ harness'.todo = harness.todo \ {p}

C17_Step ==
    \A p \in DOMAIN fs :
       (Relocates(p) /\ Parent(p) # VIDEO_DIR /\ Exists(fs, Dest(p))) =>
          /\ ~harness'.raised
          /\ ~Exists(fs', p)
          /\ Exists(fs', Dest(p))
          /\ fs'[Dest(p)] = fs[p]
          /\ \A q \in (DOMAIN fs \cup DOMAIN fs') \ {p, Dest(p)} : SameFile(q)

\* C17: when flatten relocates a nested video whose name is taken in the
\* store root, the relocation does not fail, the nested file is gone, the
\* root holds under that name the content of the relocated file, and every
\* other file is as before.
C17_LastWriterWins == [][C17_Step]_vars

\* a file that was in the store root before the calls has been replaced by a
\* nested file of the same name
C17_Witness ==
    /\ harness.phase \in {"loop", "call", "done"}
    /\ ~harness.raised
    /\ \E dest \in RootFiles(fs) :
          /\ Exists(harness.before.fs, dest)
          /\ fs[dest] # dest
          /\ ~Exists(fs, fs[dest])

----------------------------------------------------------------------------
(* C18 *)

AllWorkersCompleted == \A i \in Threads : workers[i].pc = "done"

\* the file at p is named by the identifier of a submitted job
NamedByJob(p) == Len(p) = 1 /\ BaseName(p) \in IssuedVids

\* the file at p carries a name the rendering engine gave it
NamedByEngine(p) == BaseName(p) \in FragNames \cup {Mp4Name(SceneName)}

\* C18 as stated: once the submitted workers have completed, every file
\* directly in the store root is named by the identifier of a submitted job.
C18_RootNamedByJob ==
    AllWorkersCompleted => \A p \in RootFiles(fs) : NamedByJob(p)

\* C18, amended: every file directly in the store root is either named by
\* the identifier of a submitted job or is a file of the rendering engine
\* under the engine's name (a relocated fragment, the engine's movie).
C18_RootNamedByJobOrEngine ==
    \A p \in RootFiles(fs) : NamedByJob(p) \/ NamedByEngine(p)

\* every worker has completed, a job is ready with its video in the root,
\* and a relocated fragment lies next to it
C18_Witness ==
    /\ Threads # {}
    /\ AllWorkersCompleted
    /\ \E i \in Threads :
          /\ GetTask(TASKS, workers[i].vid) = Ready
          /\ Exists(fs, workers[i].outfile)
    /\ \E p \in RootFiles(fs) : BaseName(p) \in FragNames

----------------------------------------------------------------------------
(* C19 *)

\* start_solve has spawned a worker in this step
SpawnStep == gui'.running > gui.running

\* a callback that a finished worker queued runs in this step and it is one
\* of the two that enable the Solve button
CompletionCallbackStep ==
    /\ gui.after # <<>>
    /\ Head(gui.after) \in {"finish_render", "enable_solve"}
    /\ gui'.after = Tail(gui.after)

C19_State ==
    /\ gui.running <= 1
    /\ gui.running = 1 => gui.solve_btn = DISABLED

C19_Step ==
    /\ SpawnStep => gui.running = 0 /\ gui'.solve_btn = DISABLED
    /\ (gui.solve_btn = DISABLED /\ gui'.solve_btn = NORMAL)
          => CompletionCallbackStep /\ gui.running = 0

\* C19: at most one solve worker is in flight; while one is, the Solve
\* button is disabled; a worker is spawned only when none runs, with the
\* button disabled in the same step; and the button is enabled again only
\* by a callback a finished worker queued.
C19_OneWorker == []C19_State /\ [][C19_Step]_vars

\* a second solve is running after a first one completed and was navigated
C19_Witness ==
    /\ gui.running = 1
    /\ gui.solve_btn = DISABLED
    /\ TimelineComputed
    /\ gui.current_step > 0

----------------------------------------------------------------------------
(* C20 *)

Mirror ==
    /\ gui.prev_btn = NORMAL <=> gui.current_step > 0
    /\ gui.next_btn = NORMAL <=> gui.current_step < 2

BothDisabled == gui.prev_btn = DISABLED /\ gui.next_btn = DISABLED

SuccessfulFinishStep == FinishRenderStep /\ gui'.duration > 0

\* an enabled navigation button is pressed in this step
PressStep ==
    \/ gui.prev_btn = NORMAL /\ gui' = PrevStep(gui)
    \/ gui.next_btn = NORMAL /\ gui' = NextStep(gui)

C20_Step ==
    /\ SuccessfulFinishStep => Mirror'
    /\ (Mirror /\ TimelineComputed /\ PressStep) => Mirror'
    /\ SpawnStep => BothDisabled'
    /\ (BothDisabled /\ ~BothDisabled') => SuccessfulFinishStep

C20_State == ~BothDisabled => (Mirror /\ TimelineComputed)

\* C20: a successful finish_render leaves Prev enabled exactly when
\* current_step > 0 and Next exactly when current_step < 2, every press of
\* an enabled navigation button keeps it so, start_solve disables both
\* buttons, and only a successful finish_render enables one again.
C20_ButtonsMirrorStep == []C20_State /\ [][C20_Step]_vars

\* the last step was reached by two presses of Next and one step back and
\* forth: Next is disabled, Prev enabled
C20_Witness ==
    /\ TimelineComputed
    /\ gui.current_step = 2
    /\ gui.prev_btn = NORMAL
    /\ gui.next_btn = DISABLED
    /\ gui.solve_btn = NORMAL
    /\ gui.running = 0

====
